---- MODULE Spec2Model ----
(***************************************************************************)
(* market-signals (src/main.py): a script that loads the set of seen       *)
(* identifiers, runs eight feed sections in a fixed order, pushes each     *)
(* candidate through push()/is_new(), commits the sinks and saves the set. *)
(*                                                                         *)
(* A behaviour is a succession of process runs over the same files         *)
(* (.last_seen.json, signals.db, signals.csv).  The upstream sources are   *)
(* chosen in Init and stay the same for every run; what varies between     *)
(* runs is the environment: credentials present or not, fetches failing,   *)
(* sink writes failing, the save of the set failing.                       *)
(***************************************************************************)
EXTENDS Integers, Sequences, FiniteSets, TLC

\* ------------------------------------------------------------------ bounds
MaxRuns   == 2      \* process runs in one behaviour
MaxItems  == 2      \* entries the upstream sources hold in total
MaxFaults == 1      \* injected failures that lose or break something
MaxTries  == 4      \* largest `tries` get_feed is called with (SpecFeed)
JitterRes == 3      \* random.random() is drawn from {0, 1/JitterRes, ...}

\* --------------------------------------------------------- program constants
HTTP_TIMEOUT == 8
DefaultTries == 3
BaseDelay    == 3
OptRows      == 15

VARIABLES
    upstream,   \* section -> the entries its source holds (sequence of keys)
    memfile,    \* .last_seen.json: [kind: absent | valid | corrupt, ids]
    db,         \* signals.db: committed rows
    csvf,       \* signals.csv: rows written
    run,        \* number of the current process run
    pc,         \* position of the script
    queue,      \* entries of the current section not yet handled
    seen,       \* the global set `seen`
    txn,        \* rows inserted through cur.execute in this run
    faults,     \* failures injected so far
    lastReq,    \* parameters of the last requests.get call
    lastOffer,  \* last identifier handled by push and what push did with it
    loaded,     \* history: the set load_seen returned in this run
    csvStart,   \* history: Len(csvf) when this run started
    lost,       \* history: sections that did not deliver their source's entries
    wfail,      \* history: a sink write failed in this run
    flushes,    \* history: save_seen calls completed in this run
    prev,       \* history: summary of the previous run
    exitBy,     \* history: what raised the exception that ended this run
    fTries, fN, fLog, fRet     \* one get_feed call (SpecFeed)

pipeVars == <<upstream, memfile, db, csvf, run, pc, queue, seen, txn, faults,
              lastReq, lastOffer, loaded, csvStart, lost, wfail, flushes, prev,
              exitBy>>
feedVars == <<fTries, fN, fLog, fRet>>
vars == <<pipeVars, feedVars>>

\* ------------------------------------------------------------------ sections
Order == <<"SEC4", "SEC8-K", "EARN", "PR", "OPT", "TWIT", "REDDIT", "NEWS">>
Sections == {Order[i] : i \in 1..Len(Order)}
FeedSections == {"SEC4", "SEC8-K", "PR", "NEWS"}
GuardedSections == {"OPT", "TWIT", "REDDIT"}

IndexOf(a) == CHOOSE i \in 1..Len(Order) : Order[i] = a

\* A fall-through that passes over the commit and close of the sinks.
NextPc_skips_close(a) == IF IndexOf(a) = Len(Order) THEN "save" ELSE Order[IndexOf(a) + 1]

NextPc(a) == IF IndexOf(a) = Len(Order) THEN "close" ELSE Order[IndexOf(a) + 1]

\* The identifier each section builds for an entry.  An identifier is the
\* pair <<prefix, key>>; a feed entry's id is used as it is, and key 0 is the
\* empty id, so <<"", 0>> is the empty string.
Prefix(a) ==
    CASE a = "EARN"   -> "earn-"
      [] a = "OPT"    -> "opt-"
      [] a = "TWIT"   -> "tw-"
      [] a = "REDDIT" -> "rd-"
      [] OTHER        -> ""

Uid(a, k) == <<Prefix(a), k>>

EmptyUid == <<"", 0>>

\* The row a section builds: its source tag and the entry's fields.
Row(a, k) == [source |-> a, entry |-> k]

RowUid(r) == Uid(r.source, r.entry)

\* ------------------------------------------------------------ upstream data
Min(x, y) == IF x <= y THEN x ELSE y

\* One upstream entry: the section whose source holds it and its key.  Only a
\* feed entry can carry the empty id.
Slots == {sl \in [a : Sections, k : 0..MaxItems] : sl.k = 0 => sl.a \in FeedSections}

\* Keys are opaque, so within one identifier namespace they are numbered in the
\* order of first appearance; entries are listed section by section.
Canonical(items) ==
    \A i \in 1..Len(items) :
        /\ i > 1 => IndexOf(items[i-1].a) <= IndexOf(items[i].a)
        /\ \A k \in 1..(items[i].k - 1) :
              \E j \in 1..(i-1) : /\ Prefix(items[j].a) = Prefix(items[i].a)
                                  /\ items[j].k = k

ItemSeqs == {items \in UNION {[1..n -> Slots] : n \in 0..MaxItems} : Canonical(items)}

RECURSIVE KeysOf(_, _)
KeysOf(items, a) ==
    IF items = <<>> THEN <<>>
    ELSE IF Head(items).a = a THEN <<Head(items).k>> \o KeysOf(Tail(items), a)
    ELSE KeysOf(Tail(items), a)

Worlds == {[a \in Sections |-> KeysOf(items, a)] : items \in ItemSeqs}

\* ------------------------------------------------------- 1. memory (anti-spam)
Absent == [kind |-> "absent", ids |-> {}]
Corrupt == [kind |-> "corrupt", ids |-> {}]
Valid(s) == [kind |-> "valid", ids |-> s]

\* load_seen that ignores the file.
load_seen_forgets(f) == [raised |-> FALSE, set |-> {}]

\* load_seen: FileNotFoundError is the only exception it catches.
load_seen(f) ==
    CASE f.kind = "absent" -> [raised |-> FALSE, set |-> {}]
      [] f.kind = "valid"  -> [raised |-> FALSE, set |-> f.ids]
      [] OTHER             -> [raised |-> TRUE,  set |-> {}]

\* A save that writes an empty list whatever the set holds.
save_seen_drops(s, f, out) ==
    IF out = "ok" THEN [raised |-> FALSE, file |-> Valid({})]
    ELSE IF out = "openfail" THEN [raised |-> TRUE, file |-> f]
    ELSE [raised |-> TRUE, file |-> Corrupt]

\* save_seen: open(MEMFILE, "w") truncates the file, json.dump then writes it.
\* out: "ok", "openfail" (open raises, file untouched), "writefail" (the write
\* raises after the truncation).
save_seen(s, f, out) ==
    CASE out = "ok"       -> [raised |-> FALSE, file |-> Valid(s)]
      [] out = "openfail" -> [raised |-> TRUE,  file |-> f]
      [] OTHER            -> [raised |-> TRUE,  file |-> Corrupt]

\* is_new without the membership test.
is_new_always(uid, s) == [new |-> TRUE, seen |-> s \cup {uid}]

\* A test that never adds the identifier to the set.
is_new_forgets(uid, s) == [new |-> uid \notin s, seen |-> s]

\* is_new: membership test, then the add.
is_new(uid, s) ==
    IF uid \in s THEN [new |-> FALSE, seen |-> s]
    ELSE [new |-> TRUE, seen |-> s \cup {uid}]

\* ------------------------------------------------------------------ 2. helpers
\* get_feed's loop from iteration n on; pat[i] says whether attempt i succeeds.
RECURSIVE feed_loop(_, _, _)
feed_loop(n, tries, pat) ==
    IF n >= tries THEN "none"
    ELSE IF pat[n + 1] THEN "parsed"
    ELSE IF n = tries - 1 THEN "empty"
    ELSE feed_loop(n + 1, tries, pat)

get_feed(tries, pat) == feed_loop(0, tries, pat)

\* time.sleep(3 * (2 ** n) + random.random()) in units of 1/JitterRes second.
RECURSIVE Pow2(_)
Pow2(n) == IF n = 0 THEN 1 ELSE 2 * Pow2(n - 1)

\* A backoff that does not grow.
Backoff_flat(n, j) == JitterRes * BaseDelay + j

Backoff(n, j) == JitterRes * BaseDelay * Pow2(n) + j

\* push writing the CSV row before the INSERT.
push_csv_first(row, uid, s, t, c, out) ==
    LET r == is_new(uid, s) IN
    IF ~r.new THEN
        [seen |-> r.seen, txn |-> t, csv |-> c, raised |-> FALSE, res |-> "duplicate"]
    ELSE IF out = "failB" THEN
        [seen |-> r.seen, txn |-> t, csv |-> c, raised |-> TRUE, res |-> "failB"]
    ELSE IF out = "failA" THEN
        [seen |-> r.seen, txn |-> t, csv |-> Append(c, row), raised |-> TRUE, res |-> "failA"]
    ELSE
        [seen |-> r.seen, txn |-> Append(t, row), csv |-> Append(c, row),
         raised |-> FALSE, res |-> "written"]

\* A push that puts the new line at the head of signals.csv.
push_prepends(row, uid, s, t, c, out) ==
    LET r == is_new(uid, s) IN
    IF ~r.new THEN
        [seen |-> r.seen, txn |-> t, csv |-> c, raised |-> FALSE, res |-> "duplicate"]
    ELSE IF out = "failA" THEN
        [seen |-> r.seen, txn |-> t, csv |-> c, raised |-> TRUE, res |-> "failA"]
    ELSE IF out = "failB" THEN
        [seen |-> r.seen, txn |-> Append(t, row), csv |-> c, raised |-> TRUE, res |-> "failB"]
    ELSE
        [seen |-> r.seen, txn |-> Append(t, row), csv |-> <<row>> \o c,
         raised |-> FALSE, res |-> "written"]

\* A push that writes both sinks and leaves the identifier out of the set.
push_unmarked(row, uid, s, t, c, out) ==
    IF uid \in s THEN
        [seen |-> s, txn |-> t, csv |-> c, raised |-> FALSE, res |-> "duplicate"]
    ELSE IF out = "failA" THEN
        [seen |-> s, txn |-> t, csv |-> c, raised |-> TRUE, res |-> "failA"]
    ELSE IF out = "failB" THEN
        [seen |-> s, txn |-> Append(t, row), csv |-> c, raised |-> TRUE, res |-> "failB"]
    ELSE
        [seen |-> s, txn |-> Append(t, row), csv |-> Append(c, row),
         raised |-> FALSE, res |-> "written"]

\* push: out is what the sinks do if they are written: "ok", "failA" (the
\* INSERT raises), "failB" (the INSERT is done, writerow raises).
push(row, uid, s, t, c, out) ==
    LET r == is_new(uid, s) IN
    IF ~r.new THEN
        [seen |-> r.seen, txn |-> t, csv |-> c, raised |-> FALSE, res |-> "duplicate"]
    ELSE IF out = "failA" THEN
        [seen |-> r.seen, txn |-> t, csv |-> c, raised |-> TRUE, res |-> "failA"]
    ELSE IF out = "failB" THEN
        [seen |-> r.seen, txn |-> Append(t, row), csv |-> c, raised |-> TRUE, res |-> "failB"]
    ELSE
        [seen |-> r.seen, txn |-> Append(t, row), csv |-> Append(c, row),
         raised |-> FALSE, res |-> "written"]

\* The Reddit loop body: is_new(uid) first, push (and so is_new again) after.
reddit_post(row, uid, s, t, c, out) ==
    LET r == is_new(uid, s) IN
    IF ~r.new THEN
        [seen |-> r.seen, txn |-> t, csv |-> c, raised |-> FALSE, res |-> "duplicate"]
    ELSE push(row, uid, r.seen, t, c, out)

\* The headers and timeout each requests.get call passes.
FeedReq(a)  == [by |-> a, ua |-> TRUE, timeout |-> HTTP_TIMEOUT]
EarnReq     == [by |-> "EARN", ua |-> TRUE, timeout |-> HTTP_TIMEOUT]
OptReq      == [by |-> "OPT", ua |-> TRUE, timeout |-> HTTP_TIMEOUT]
TwitReq     == [by |-> "TWIT", ua |-> FALSE, timeout |-> HTTP_TIMEOUT]
NoReq       == [by |-> "none", ua |-> TRUE, timeout |-> HTTP_TIMEOUT]

NoOffer == [uid |-> EmptyUid, res |-> "none", by |-> "none"]
NoPrev  == [status |-> "none", lost |-> {}, wfail |-> FALSE, flushed |-> Absent,
            added |-> 0, exitBy |-> "none", loaded |-> {}]

\* ---------------------------------------------------------------- the script
FeedIdle == fTries = 0 /\ fN = 0 /\ fLog = <<>> /\ fRet = "idle"

Init ==
    /\ upstream \in Worlds
    /\ memfile \in {Absent, Corrupt}
    /\ db = <<>> /\ csvf = <<>>
    /\ run = 1 /\ pc = "load" /\ queue = <<>>
    /\ seen = {} /\ txn = <<>>
    /\ faults = 0
    /\ lastReq = NoReq /\ lastOffer = NoOffer
    /\ loaded = {} /\ csvStart = 0 /\ lost = {} /\ wfail = FALSE /\ flushes = 0
    /\ prev = NoPrev /\ exitBy = "none"
    /\ FeedIdle

Files == <<upstream, memfile, db, csvf>>
History == <<loaded, csvStart, flushes, prev, exitBy>>

\* seen = load_seen() (line 24); an exception other than FileNotFoundError ends
\* the process before anything else is opened.
LoadSeen ==
    /\ pc = "load"
    /\ LET r == load_seen(memfile) IN
        /\ pc' = IF r.raised THEN "aborted" ELSE "setup"
        /\ seen' = r.set
        /\ loaded' = r.set
        /\ exitBy' = IF r.raised THEN "load" ELSE exitBy
    /\ UNCHANGED <<Files, run, queue, txn, faults, lastReq, lastOffer,
                   csvStart, lost, wfail, flushes, prev, feedVars>>

\* Section 3: connect to signals.db, open signals.csv for appending.
Setup ==
    /\ pc = "setup"
    /\ pc' = Order[1]
    /\ txn' = <<>>
    /\ UNCHANGED <<Files, run, queue, seen, faults, lastReq, lastOffer,
                   History, lost, wfail, feedVars>>

\* A section received `entries` from its fetch: it loops over them, or the
\* script goes on to the next section when there is none.
Received(a, entries, failed) ==
    /\ failed /\ upstream[a] # <<>> => faults < MaxFaults
    /\ faults' = IF failed /\ upstream[a] # <<>> THEN faults + 1 ELSE faults
    /\ lost' = IF failed /\ upstream[a] # <<>> THEN lost \cup {a} ELSE lost
    /\ queue' = entries
    /\ pc' = IF entries = <<>> THEN NextPc(a) ELSE a
    /\ exitBy' = exitBy

\* A section without its credentials is passed over.
Skipped(a) ==
    /\ pc = a /\ queue = <<>>
    /\ pc' = NextPc(a)
    /\ lost' = IF upstream[a] # <<>> THEN lost \cup {a} ELSE lost
    /\ UNCHANGED <<Files, run, queue, seen, txn, faults, lastReq, lastOffer,
                   History, wfail, feedVars>>

\* An offer that rewrites .last_seen.json as soon as the set has changed.
Offered_saves(a, uid, r, out) ==
    /\ out # "ok" => r.raised /\ faults < MaxFaults
    /\ faults' = IF r.raised THEN faults + 1 ELSE faults
    /\ wfail' = (wfail \/ r.raised)
    /\ seen' = r.seen
    /\ memfile' = Valid(r.seen)
    /\ csvf' = r.csv
    /\ lastOffer' = [uid |-> uid, res |-> r.res, by |-> a]
    /\ IF ~r.raised
         THEN /\ txn' = r.txn
              /\ queue' = Tail(queue)
              /\ pc' = IF Tail(queue) = <<>> THEN NextPc(a) ELSE a
         ELSE IF a \in GuardedSections
         THEN /\ txn' = r.txn
              /\ queue' = <<>>
              /\ pc' = NextPc(a)
         ELSE /\ txn' = <<>>
              /\ queue' = <<>>
              /\ pc' = "aborted"
    /\ exitBy' = IF r.raised /\ a \notin GuardedSections THEN "sink" ELSE exitBy
    /\ UNCHANGED <<upstream, db, run, lastReq, loaded, csvStart, flushes,
                   prev, lost, feedVars>>

\* One loop iteration handled the head of the queue with result r; a sink can
\* only fail (out) when it is written.  An exception leaves the loop: inside a
\* try block the section ends, elsewhere the process ends and the open
\* transaction is rolled back.
Offered(a, uid, r, out) ==
    /\ out # "ok" => r.raised /\ faults < MaxFaults
    /\ faults' = IF r.raised THEN faults + 1 ELSE faults
    /\ wfail' = (wfail \/ r.raised)
    /\ seen' = r.seen
    /\ csvf' = r.csv
    /\ lastOffer' = [uid |-> uid, res |-> r.res, by |-> a]
    /\ IF ~r.raised
         THEN /\ txn' = r.txn
              /\ queue' = Tail(queue)
              /\ pc' = IF Tail(queue) = <<>> THEN NextPc(a) ELSE a
         ELSE IF a \in GuardedSections
         THEN /\ txn' = r.txn
              /\ queue' = <<>>
              /\ pc' = NextPc(a)
         ELSE /\ txn' = <<>>
              /\ queue' = <<>>
              /\ pc' = "aborted"
    /\ exitBy' = IF r.raised /\ a \notin GuardedSections THEN "sink" ELSE exitBy
    /\ UNCHANGED <<upstream, memfile, db, run, lastReq, loaded, csvStart, flushes,
                   prev, lost, feedVars>>

SinkOutcomes == {"ok", "failA", "failB"}

\* Section 4, SEC filings / Business Wire / policy headlines: get_feed(url).
FeedFetch(a) ==
    /\ pc = a /\ queue = <<>>
    /\ \E ret \in {get_feed(DefaultTries, pat) : pat \in [1..DefaultTries -> BOOLEAN]} :
         Received(a, IF ret = "parsed" THEN upstream[a] ELSE <<>>, ret # "parsed")
    /\ lastReq' = FeedReq(a)
    /\ UNCHANGED <<Files, run, seen, txn, lastOffer, loaded, csvStart, flushes, prev, wfail, feedVars>>

FeedPush(a) ==
    /\ pc = a /\ queue # <<>>
    /\ \E out \in SinkOutcomes :
         LET uid == Uid(a, Head(queue)) IN
         Offered(a, uid, push(Row(a, Head(queue)), uid, seen, txn, csvf, out), out)

\* Earnings calendar: requests.get and resp.json() are outside any try block.
EarnSkip == Skipped("EARN")

EarnFetch ==
    /\ pc = "EARN" /\ queue = <<>>
    /\ \E ok \in BOOLEAN :
         IF ok
         THEN /\ Received("EARN", upstream["EARN"], FALSE)
              /\ txn' = txn
         ELSE /\ faults < MaxFaults
              /\ faults' = faults + 1
              /\ lost' = lost \cup {"EARN"}
              /\ queue' = <<>>
              /\ txn' = <<>>
              /\ pc' = "aborted"
              /\ exitBy' = "fetch"
    /\ lastReq' = EarnReq
    /\ UNCHANGED <<Files, run, seen, lastOffer, loaded, csvStart, flushes, prev, wfail, feedVars>>

EarnPush == FeedPush("EARN")

\* Unusual options: the whole section is inside try/except Exception.
OptFetch ==
    /\ pc = "OPT" /\ queue = <<>>
    /\ \E ok \in BOOLEAN :
         Received("OPT",
                  IF ok THEN SubSeq(upstream["OPT"], 1, Min(OptRows, Len(upstream["OPT"])))
                  ELSE <<>>,
                  ~ok)
    /\ lastReq' = OptReq
    /\ UNCHANGED <<Files, run, seen, txn, lastOffer, loaded, csvStart, flushes, prev, wfail, feedVars>>

OptPush == FeedPush("OPT")

\* Twitter recent search: inside try/except Exception, only with TW_BEAR.
TwitSkip == Skipped("TWIT")

TwitFetch ==
    /\ pc = "TWIT" /\ queue = <<>>
    /\ \E ok \in BOOLEAN :
         Received("TWIT", IF ok THEN upstream["TWIT"] ELSE <<>>, ~ok)
    /\ lastReq' = TwitReq
    /\ UNCHANGED <<Files, run, seen, txn, lastOffer, loaded, csvStart, flushes, prev, wfail, feedVars>>

TwitPush == FeedPush("TWIT")

\* Reddit stream: inside try/except Exception, only with the praw client.
RedditSkip == Skipped("REDDIT")

RedditFetch ==
    /\ pc = "REDDIT" /\ queue = <<>>
    /\ \E ok \in BOOLEAN :
         Received("REDDIT", IF ok THEN upstream["REDDIT"] ELSE <<>>, ~ok)
    /\ UNCHANGED <<Files, run, seen, txn, lastReq, lastOffer, loaded, csvStart, flushes, prev, wfail, feedVars>>

RedditPost ==
    /\ pc = "REDDIT" /\ queue # <<>>
    /\ \E out \in SinkOutcomes :
         LET uid == Uid("REDDIT", Head(queue)) IN
         Offered("REDDIT", uid,
                 reddit_post(Row("REDDIT", Head(queue)), uid, seen, txn, csvf, out), out)

\* Section 5: db.commit(); db.close(); csvfile.close().
CloseSinks ==
    /\ pc = "close"
    /\ db' = db \o txn
    /\ pc' = "save"
    /\ UNCHANGED <<upstream, memfile, csvf, run, queue, seen, txn, faults, lastReq,
                   lastOffer, History, lost, wfail, feedVars>>

\* save_seen(seen) and the closing print.
SaveSeen ==
    /\ pc = "save"
    /\ \E out \in {"ok", "openfail", "writefail"} :
         LET r == save_seen(seen, memfile, out) IN
         /\ out # "ok" => faults < MaxFaults
         /\ faults' = IF out # "ok" THEN faults + 1 ELSE faults
         /\ memfile' = r.file
         /\ flushes' = IF r.raised THEN flushes ELSE flushes + 1
         /\ pc' = IF r.raised THEN "aborted" ELSE "done"
         /\ exitBy' = IF r.raised THEN "save" ELSE exitBy
    /\ UNCHANGED <<upstream, db, csvf, run, queue, seen, txn, lastReq, lastOffer,
                   loaded, csvStart, prev, lost, wfail, feedVars>>

\* The script is started again over the same files.
NextRun ==
    /\ pc \in {"done", "aborted"}
    /\ run < MaxRuns
    /\ run' = run + 1
    /\ pc' = "load"
    /\ prev' = [status |-> pc, lost |-> lost, wfail |-> wfail, flushed |-> memfile,
                added |-> Len(csvf) - csvStart, exitBy |-> exitBy, loaded |-> loaded]
    /\ seen' = {} /\ txn' = <<>> /\ queue' = <<>>
    /\ lastReq' = NoReq /\ lastOffer' = NoOffer
    /\ loaded' = {} /\ csvStart' = Len(csvf) /\ lost' = {} /\ wfail' = FALSE
    /\ flushes' = 0 /\ exitBy' = "none"
    /\ UNCHANGED <<Files, faults, feedVars>>

Next ==
    \/ LoadSeen \/ Setup
    \/ \E a \in FeedSections : FeedFetch(a)
    \/ \E a \in FeedSections : FeedPush(a)
    \/ EarnSkip \/ EarnFetch \/ EarnPush
    \/ OptFetch \/ OptPush
    \/ TwitSkip \/ TwitFetch \/ TwitPush
    \/ RedditSkip \/ RedditFetch \/ RedditPost
    \/ CloseSinks \/ SaveSeen \/ NextRun

Spec == Init /\ [][Next]_vars

\* ------------------------------------------------- get_feed, attempt by attempt
\* One call get_feed(url, tries) against a target whose attempts succeed or
\* fail freely.  fN is the loop variable n, fLog has one entry per attempt made:
\* whether it succeeded and the sleep that followed it (0: no sleep).
InitFeed ==
    /\ upstream = [a \in Sections |-> <<>>]
    /\ memfile = Absent
    /\ db = <<>> /\ csvf = <<>>
    /\ run = 1 /\ pc = "load" /\ queue = <<>>
    /\ seen = {} /\ txn = <<>>
    /\ faults = 0
    /\ lastReq = NoReq /\ lastOffer = NoOffer
    /\ loaded = {} /\ csvStart = 0 /\ lost = {} /\ wfail = FALSE /\ flushes = 0
    /\ prev = NoPrev /\ exitBy = "none"
    /\ fTries \in 1..MaxTries
    /\ fN = 0 /\ fLog = <<>> /\ fRet = "running"

FeedFrame == UNCHANGED <<upstream, memfile, db, csvf, run, pc, queue, seen, txn,
                         faults, lastOffer, loaded, csvStart, lost, wfail, flushes,
                         prev, exitBy, fTries>>

\* requests.get and raise_for_status succeed: return feedparser.parse(r.content).
AttemptOk ==
    /\ fRet = "running" /\ fN < fTries
    /\ lastReq' = FeedReq("get_feed")
    /\ fLog' = Append(fLog, [ok |-> TRUE, slept |-> 0])
    /\ fRet' = "parsed"
    /\ fN' = fN
    /\ FeedFrame

\* The attempt raises and n = tries - 1: return feedparser.parse(b"").
AttemptFailLast ==
    /\ fRet = "running" /\ fN < fTries
    /\ fN = fTries - 1
    /\ lastReq' = FeedReq("get_feed")
    /\ fLog' = Append(fLog, [ok |-> FALSE, slept |-> 0])
    /\ fRet' = "empty"
    /\ fN' = fN
    /\ FeedFrame

\* A handler that sleeps after every failed attempt, the last one included.
AttemptFailRetry_always ==
    /\ fRet = "running" /\ fN < fTries
    /\ \E j \in 0..(JitterRes - 1) :
         fLog' = Append(fLog, [ok |-> FALSE, slept |-> Backoff(fN, j)])
    /\ lastReq' = FeedReq("get_feed")
    /\ fRet' = fRet
    /\ fN' = fN + 1
    /\ FeedFrame

\* The attempt raises and attempts are left: sleep, then the next iteration.
AttemptFailRetry ==
    /\ fRet = "running" /\ fN < fTries
    /\ fN # fTries - 1
    /\ \E j \in 0..(JitterRes - 1) :
         fLog' = Append(fLog, [ok |-> FALSE, slept |-> Backoff(fN, j)])
    /\ lastReq' = FeedReq("get_feed")
    /\ fRet' = fRet
    /\ fN' = fN + 1
    /\ FeedFrame

NextFeed == AttemptOk \/ AttemptFailLast \/ AttemptFailRetry

SpecFeed == InitFeed /\ [][NextFeed]_vars

\* ======================================================================
\* Properties
\* ======================================================================
\* The process of the current run is alive and has loaded its set.
Live == pc \notin {"load", "aborted"}

\* The rows this run wrote to signals.csv, and those it inserted.
RunCsv == SubSeq(csvf, csvStart + 1, Len(csvf))
RunDb  == txn

RowsOf(rows, uid) == {i \in 1..Len(rows) : RowUid(rows[i]) = uid}

RECURSIVE IsSubSeq(_, _)
IsSubSeq(x, y) ==
    IF x = <<>> THEN TRUE
    ELSE IF y = <<>> THEN FALSE
    ELSE IF Head(x) = Head(y) THEN IsSubSeq(Tail(x), Tail(y))
    ELSE IsSubSeq(x, Tail(y))

\* ---------------------------------------------------------------------- C1
\* C1 (as claimed): an identifier enters `seen` only after the INSERT and the
\* CSV row both succeeded, so every identifier added to `seen` in the current
\* run has its row in both sinks.
C1_WriteThenMark ==
    Live => \A uid \in seen \ loaded :
                /\ RowsOf(RunDb, uid) # {}
                /\ RowsOf(RunCsv, uid) # {}

\* ---------------------------------------------------------------------- C2
\* C2 (as claimed): when the CSV write fails after the INSERT succeeded, the
\* identifier is not in `seen`, nor in the set saved at the end of that run.
C2_PartialFailureNotMarked ==
    lastOffer.res = "failB" =>
        /\ Live => lastOffer.uid \notin seen
        /\ pc = "done" => lastOffer.uid \notin memfile.ids

\* ---------------------------------------------------------------------- C3
\* C3 (as claimed), in runs where nothing fails: after a run that ended
\* normally, every identifier of the saved set has exactly one row in
\* signals.db and exactly one row in signals.csv, whichever section offered it.
C3_ExactlyOneSignal ==
    (pc = "done" /\ faults = 0) =>
        \A uid \in memfile.ids :
            /\ Cardinality(RowsOf(db, uid)) = 1
            /\ Cardinality(RowsOf(csvf, uid)) = 1

\* ---------------------------------------------------------------------- C4
\* The next loop iteration offers an identifier that is already in `seen`.
OffersSeen == pc \in Sections /\ queue # <<>> /\ Uid(pc, Head(queue)) \in seen

\* Within one run no identifier has two rows in a sink.
AtMostOncePerRun ==
    \A uid \in seen :
        /\ Cardinality(RowsOf(RunDb, uid)) <= 1
        /\ Cardinality(RowsOf(RunCsv, uid)) <= 1

\* C4: offering an identifier that is in `seen` appends no row to either sink
\* and leaves `seen` and the saved set as they are; so within one run an
\* identifier is written on its first occurrence at most.
C4_DuplicateChangesNothing ==
    [][/\ OffersSeen => /\ seen' = seen
                        /\ txn' = txn /\ db' = db /\ csvf' = csvf
                        /\ memfile' = memfile
                        /\ lastOffer'.res = "duplicate"
       /\ Live' => AtMostOncePerRun']_vars

\* A second occurrence, in one run, of an identifier written earlier in that
\* run has just been skipped.
C4_Witness ==
    /\ Live
    /\ lastOffer.res = "duplicate"
    /\ lastOffer.uid \notin loaded
    /\ lastOffer.uid # EmptyUid
    /\ Cardinality(RowsOf(RunCsv, lastOffer.uid)) = 1
    /\ Cardinality(RowsOf(RunDb, lastOffer.uid)) = 1

\* ---------------------------------------------------------------------- C5
\* Two runs in succession, the first ended normally, with the same upstream
\* data and every section delivering in the second what it delivered in the
\* first; the second has ended normally too.
SecondRunSameData ==
    /\ pc = "done"
    /\ prev.status = "done"
    /\ prev.lost = lost

SecondRunAddsNothing ==
    /\ RunDb = <<>>
    /\ RunCsv = <<>>
    /\ memfile = prev.flushed

\* C5 (as claimed): a second run over identical upstream data appends no row
\* to either sink and saves the set the first run saved.
C5_Idempotent == SecondRunSameData => SecondRunAddsNothing

\* C5 (amended): the same, provided no sink write failed in the first run.
C5_IdempotentAfterCleanRun ==
    (SecondRunSameData /\ ~prev.wfail) => SecondRunAddsNothing

\* The second run ended after a first run that wrote rows.
C5_Witness ==
    /\ SecondRunSameData /\ ~prev.wfail
    /\ prev.added > 0
    /\ lastOffer.res = "duplicate"

\* ---------------------------------------------------------------------- C6
\* C6 (as claimed): a failing fetch never ends the run, whichever section it
\* belongs to.
C6_FetchFailureIsolated == exitBy # "fetch"

\* ---------------------------------------------------------------------- C7
\* C7 (as claimed): loading the saved set never ends the run, whatever the
\* file holds; the run goes on with the empty set.
C7_LoadNeverRaises == exitBy # "load"

\* ---------------------------------------------------------------------- C8
AllFailed == \A i \in 1..Len(fLog) : ~fLog[i].ok

\* C8: get_feed with tries = 3 against a target that fails every time makes
\* three attempts and no more, sleeps after the first and after the second for
\* BaseDelay * 2^(attempt-1) seconds plus a jitter in [0, 1), the second sleep
\* longer than the first, does not sleep after the third, and returns the
\* empty feed.
C8_RetryBackoffBound ==
    (fTries = DefaultTries /\ AllFailed) =>
        /\ Len(fLog) <= DefaultTries
        /\ \A i \in 1..Len(fLog) :
              IF i < DefaultTries
              THEN /\ fLog[i].slept >= JitterRes * BaseDelay * Pow2(i - 1)
                   /\ fLog[i].slept <  JitterRes * BaseDelay * Pow2(i - 1) + JitterRes
              ELSE fLog[i].slept = 0
        /\ \A i, k \in 1..Len(fLog) :
              (i < k /\ k < DefaultTries) => fLog[i].slept < fLog[k].slept
        /\ fRet = "running" <=> Len(fLog) < DefaultTries
        /\ fRet # "running" => fRet = "empty"

\* All three attempts failed and get_feed has returned.
C8_Witness ==
    /\ fTries = DefaultTries /\ AllFailed
    /\ Len(fLog) = DefaultTries
    /\ fRet = "empty"

\* ---------------------------------------------------------------------- C9
\* C9 (as claimed): the empty identifier is never added to `seen` and no row
\* is written for it.
C9_EmptyIdSkipped ==
    /\ EmptyUid \notin seen
    /\ RowsOf(txn, EmptyUid) = {}
    /\ RowsOf(csvf, EmptyUid) = {}

\* --------------------------------------------------------------------- C10
\* C10 (as claimed): after a run that ended normally, signals.db and
\* signals.csv received the same rows from it, sink write failures or not.
C10_SinksAgree == pc = "done" => RunDb = RunCsv

\* C10 (amended): after a run that ended normally, every row the run wrote to
\* signals.csv was also inserted into signals.db, with the same values and in
\* the same order, and the two sinks received the same rows if no sink write
\* failed during the run.
C10_CsvWithinDb ==
    pc = "done" =>
        /\ IsSubSeq(RunCsv, RunDb)
        /\ ~wfail => RunDb = RunCsv

\* A run ended normally in which a sink write failed and rows were written.
C10_Witness ==
    /\ pc = "done" /\ wfail
    /\ RunCsv # <<>>
    /\ Len(RunDb) > Len(RunCsv)

\* --------------------------------------------------------------------- C11
\* Position of the script in the lifecycle
\* LoadLedger, RunAdapters, Flush(sinks), FlushLedger, Done.
Rank(p) ==
    CASE p = "load"       -> 0
      [] p = "setup"      -> 1
      [] p \in Sections   -> 1 + IndexOf(p)
      [] p = "close"      -> 2 + Len(Order)
      [] p = "save"       -> 3 + Len(Order)
      [] OTHER            -> 4 + Len(Order)

\* The rows this run inserted are the last rows of signals.db.
Committed ==
    /\ Len(db) >= Len(txn)
    /\ SubSeq(db, Len(db) - Len(txn) + 1, Len(db)) = txn

\* C11: within a run the script never goes back to an earlier phase; the set
\* is loaded in the first step only, before any offer; the file is written at
\* most once, by the step that follows the commit and close of the sinks, when
\* every section is over; a run that ended normally wrote it exactly once.
C11_LifecycleOrder ==
    [][/\ run' = run => Rank(pc') >= Rank(pc)
       /\ (run' = run /\ loaded' # loaded) => (pc = "load" /\ flushes = 0)
       /\ (run' = run /\ lastOffer' # lastOffer) => (pc \in Sections /\ flushes = 0)
       /\ (memfile' # memfile \/ flushes' > flushes) =>
             /\ pc = "save" /\ queue = <<>> /\ Committed
             /\ flushes = 0 /\ flushes' <= 1
       /\ pc' = "done" => flushes' = 1]_vars

\* A second run that loaded a non-empty set, wrote rows and ended normally.
C11_Witness ==
    /\ pc = "done" /\ flushes = 1
    /\ loaded # {} /\ txn # <<>>
    /\ memfile = Valid(seen)

\* --------------------------------------------------------------------- C12
\* C12 (as claimed): a save that fails leaves .last_seen.json holding a
\* complete set, the previous one or the new one, never a truncated content.
C12_AtomicFlush ==
    exitBy = "save" => memfile \in {Absent, Valid(loaded), Valid(seen)}

\* --------------------------------------------------------------------- C13
\* C13 (as claimed): after a run that ended in a failed save, the next run
\* loads a set and goes on to deliver; it does not die while loading.
C13_FlushFailureRedelivers ==
    prev.exitBy = "save" => exitBy # "load"

\* --------------------------------------------------------------------- C14
IsPrefix(x, y) == Len(x) <= Len(y) /\ SubSeq(y, 1, Len(x)) = x

\* The rows section a produces, in the order its loop meets the entries.
Produced(a) == [i \in 1..Len(upstream[a]) |-> Row(a, upstream[a][i])]

\* The lines of rows that section a caused.
From(rows, a) == LET Mine(r) == r.source = a IN SelectSeq(rows, Mine)

\* C14: every step leaves the lines signals.csv and signals.db already hold
\* where they are and adds only at the end; the lines a section caused in this
\* run stand in signals.csv in the order the section produced them.
C14_OrderPreserved ==
    [][/\ IsPrefix(csvf, csvf')
       /\ IsPrefix(db, db')
       /\ csvf' # csvf => \A a \in Sections :
             IsSubSeq(From(RunCsv', a), Produced(a))]_vars

\* One section has put two different entries into signals.csv in this run.
C14_Witness ==
    /\ Live
    /\ \E a \in Sections :
          /\ Len(From(RunCsv, a)) = 2
          /\ From(RunCsv, a)[1] # From(RunCsv, a)[2]
          /\ From(RunCsv, a) = Produced(a)

\* --------------------------------------------------------------------- C15
\* The script is at a loop body whose next statement offers an entry.
Offers == pc \in Sections /\ queue # <<>>

\* C15: an offer is one step, test and add together: the step that offers an
\* identifier leaves it in the set and takes nothing out of the set, and an
\* offer of an identifier already in the set is answered as a duplicate and
\* writes nothing; so of two offers of one identifier in a run the later one
\* never finds it absent.
C15_SerializedOffers ==
    [][Offers =>
          LET uid == Uid(pc, Head(queue)) IN
          /\ uid \in seen'
          /\ seen \subseteq seen'
          /\ lastOffer'.uid = uid
          /\ uid \in seen => /\ lastOffer'.res = "duplicate"
                             /\ txn' = txn /\ csvf' = csvf]_vars

\* Two sections offered one identifier in the same run: the line in
\* signals.csv came from the first, the second found the identifier marked.
C15_Witness ==
    /\ Live
    /\ lastOffer.res = "duplicate"
    /\ lastOffer.uid \notin loaded
    /\ \E i \in 1..Len(RunCsv) :
          /\ RowUid(RunCsv[i]) = lastOffer.uid
          /\ RunCsv[i].source # lastOffer.by

\* --------------------------------------------------------------------- C16
\* C16 (as claimed): every requests.get call, whoever makes it, is given
\* headers=UA_HEADER and timeout=HTTP_TIMEOUT.
C16_HeaderAndTimeout ==
    lastReq.by # "none" => (lastReq.ua /\ lastReq.timeout = HTTP_TIMEOUT)

\* --------------------------------------------------------------------- C17
\* The success pattern the attempts made so far have met.
MetPattern == [i \in 1..fTries |-> i <= Len(fLog) /\ fLog[i].ok]

\* C17: for every tries in 1..MaxTries and every pattern of outcomes, get_feed
\* never makes more than tries attempts; only its last attempt can be a success
\* and a success ends it with the parsed feed; it sleeps after each failed
\* attempt but the one numbered tries, and never after a success; it ends with
\* the empty feed exactly when tries attempts have all failed.
C17_StopsAtFirstSuccess ==
    /\ Len(fLog) <= fTries
    /\ \A i \in 1..Len(fLog) :
          /\ fLog[i].ok => i = Len(fLog)
          /\ fLog[i].slept > 0 <=> (~fLog[i].ok /\ i < fTries)
    /\ fRet = "parsed" <=> (fLog # <<>> /\ fLog[Len(fLog)].ok)
    /\ fRet = "empty" <=> (Len(fLog) = fTries /\ AllFailed)
    /\ fRet = "running" <=> (Len(fLog) < fTries /\ AllFailed)
    /\ fRet # "running" =>
          /\ fRet = get_feed(fTries, MetPattern)
          /\ Cardinality({i \in 1..Len(fLog) : fLog[i].slept > 0}) = Len(fLog) - 1

\* get_feed(url, 4) succeeded at its third attempt, after two sleeps.
C17_Witness ==
    /\ fTries = 4 /\ Len(fLog) = 3
    /\ fRet = "parsed" /\ fLog[3].ok
    /\ fLog[1].slept > 0 /\ fLog[2].slept > fLog[1].slept

\* --------------------------------------------------------------------- C18
\* C18: no step of a run takes an identifier out of the set in memory, and the
\* step that ends a run normally leaves in .last_seen.json exactly that set,
\* which holds every identifier the run loaded.
C18_LedgerOnlyGrows ==
    [][/\ run' = run => seen \subseteq seen'
       /\ Live' => loaded' \subseteq seen'
       /\ pc' = "done" => /\ memfile' = Valid(seen')
                          /\ loaded' \subseteq memfile'.ids]_vars

\* A run loaded a non-empty file, marked more identifiers and saved them all.
C18_Witness ==
    /\ pc = "done"
    /\ loaded # {} /\ seen \ loaded # {}
    /\ memfile.ids = seen

\* --------------------------------------------------------------------- C19
\* C19: whatever has failed, the identifier of every line this run added to
\* signals.csv and of every row it inserted is in the set, and no two lines,
\* and no two rows, of the run carry the same identifier.
C19_RowsCovered ==
    /\ \A i \in 1..Len(RunCsv) :
          /\ RowUid(RunCsv[i]) \in seen
          /\ RowsOf(RunCsv, RowUid(RunCsv[i])) = {i}
    /\ \A i \in 1..Len(RunDb) :
          /\ RowUid(RunDb[i]) \in seen
          /\ RowsOf(RunDb, RowUid(RunDb[i])) = {i}

\* A section lost a write to signals.csv and a later section went on writing.
C19_Witness ==
    /\ pc \in Sections /\ wfail
    /\ lastOffer.res = "written"
    /\ Len(RunDb) > Len(RunCsv) /\ RunCsv # <<>>

\* --------------------------------------------------------------------- C20
\* A run ended by an exception of a section, before the save.
AbortedBeforeSave(e) == e \in {"fetch", "sink"}

\* C20: a run ended by an exception of a section has not written
\* .last_seen.json, the file holds what the run loaded, and the next run
\* loads that same set, so what the aborted run marked is new to it.
C20_AbortLeavesLedger ==
    /\ AbortedBeforeSave(exitBy) =>
          /\ pc = "aborted" /\ flushes = 0
          /\ memfile.kind # "corrupt" /\ memfile.ids = loaded
          /\ run > 1 => memfile = prev.flushed
    /\ (AbortedBeforeSave(prev.exitBy) /\ pc # "load") =>
          /\ loaded = prev.loaded
          /\ memfile = prev.flushed \/ pc \in {"done", "aborted"}

\* The run after an aborted one writes again a line the aborted run wrote.
C20_Witness ==
    /\ AbortedBeforeSave(prev.exitBy) /\ prev.added > 0
    /\ lastOffer.res = "written" /\ lastOffer.uid \notin loaded
    /\ \E i \in 1..csvStart : RowUid(csvf[i]) = lastOffer.uid

====
